---------------------------- MODULE Spec2Model ----------------------------
(***************************************************************************)
(* Model of the Telegram member tools: the Dispatcher (add_members.py,     *)
(* class MemberAdder) and the Collector (get_members.py, class             *)
(* MemberScraper).  Both are single asyncio coroutines; a state of the     *)
(* model is the program suspended at one of its awaits (a wait point), and *)
(* an action is the code that runs from one await to the next.             *)
(*                                                                         *)
(* Inputs: config['accounts'] holds distinct phones, min_delay <= max_delay *)
(* (random.randint raises otherwise), the cap and the target are >= 0, and *)
(* the candidate file holds records with distinct ids, as the Collector    *)
(* writes them.  Writes of the progress and output files succeed           *)
(* (save_progress logs a failed write and goes on).  Log lines are not     *)
(* modelled.                                                               *)
(***************************************************************************)
EXTENDS Integers, Sequences, FiniteSets, TLC

\* ------------------------------------------------------------------ bounds
\* the number of configured accounts is 1..MaxAccounts
MaxAccounts == 2
\* max_adds_per_day_per_account is 0..MaxCap
MaxCap == 2
\* members_to_add is 0..MaxTarget
MaxTarget == 2
\* the candidate file holds 0..MaxMembers records
MaxMembers == 2
\* infrastructure exceptions (connect, is_user_authorized, get_entity) per run
MaxErrors == 1

\* a response of the service holds 0..MaxPassLen users
MaxPassLen == 2
\* the reaction scan gets 0..MaxReactionMsgs messages
MaxReactionMsgs == 1
\* the search enumeration runs over the first MaxPatterns search patterns
MaxPatterns == 2

\* ------------------------------------------------- constants of the program
\* get_members.py:115  asyncio.sleep(2) after a search query
SearchSleep == 2
\* add_members.py:110  asyncio.sleep(60) after PeerFloodError
PeerFloodCooldown == 60
\* add_members.py:175  asyncio.sleep(60) in the main loop's except
MainLoopErrorSleep == 60

\* --------------------------------------------------------- input universes
\* the phones config['accounts'] is taken from
AllPhones == <<"p1", "p2", "p3", "p4">>
\* (min_delay, max_delay) of the configuration, min_delay <= max_delay
DelayConfigs == {<<1, 1>>, <<1, 2>>}
\* FloodWaitError.seconds, the wait the server asks for
FloodWaitSeconds == {1, 30}

VARIABLES
    \* configuration (config.json) and the files the run starts from
    accounts,               \* config['accounts'], a sequence of phones
    authorized,             \* the phones whose session file is authorized
    max_adds,               \* config['max_adds_per_day_per_account']
    members_to_add,         \* config['members_to_add']
    min_delay, max_delay,   \* config['min_delay'], config['max_delay']
    file,                   \* data/members_<group_source>.json (candidate ids)
    \* MemberAdder state and the locals of MemberAdder.run
    pc,                     \* the wait point the coroutine is suspended at
    members,                \* the queue of candidates still to pop
    added_members,          \* run()'s local list
    current_account_index,  \* self.current_account_index (0-based)
    current_phone,          \* run()'s local
    client,                 \* the phone whose session the open client uses
    daily_stats,            \* self.daily_stats
    user_data,              \* the candidate popped for the attempt (0: none)
    sleeping,               \* duration of the asyncio.sleep in progress
    progress,               \* data/adding_progress.json on disk
    writes,                 \* how often save_progress has written the file
    \* observations of the run (not program state)
    outcomes,               \* outcomes[i]: what the service answered for file[i]
    flood_seconds,          \* e.seconds of the last FloodWaitError
    slept,                  \* time slept since the last answer of the service
    errors,                 \* infrastructure exceptions raised so far
    \* MemberScraper state (get_members.py)
    cpc,                    \* the wait point the Collector is suspended at
    session_ok,             \* the session of accounts[0] is authorized
    all_members,            \* self.all_members, a dict in insertion order
    msg_left,               \* messages of the reaction scan still to fetch
    pattern,                \* 1-based position in search_patterns
    members_file,           \* data/members_<group_source>.json written
    stats_file,             \* data/scraping_stats.json written
    csleeping,              \* duration of the Collector's sleep in progress
    \* observations of the Collector run (not program state)
    last_strategy,          \* the strategy of the last merged response
    last_users,             \* the users of the last merged response
    queries,                \* the positions of the patterns queried so far
    cslept,                 \* time slept since the last search answer
    save_reached            \* run() has got to its save step (line 175)

dvars == <<accounts, authorized, max_adds, members_to_add, min_delay, max_delay,
           file, pc, members, added_members, current_account_index,
           current_phone, client, daily_stats, user_data, sleeping, progress,
           writes, outcomes, flood_seconds, slept, errors>>

config == <<accounts, authorized, max_adds, members_to_add, min_delay,
            max_delay, file>>

cvars == <<cpc, session_ok, all_members, msg_left, pattern, members_file,
           stats_file, csleeping, last_strategy, last_users, queries, cslept,
           save_reached>>

\* the sleep and search observations of the Collector
csearch == <<csleeping, queries, cslept>>

vars == <<dvars, cvars>>

\* ------------------------------------------------------------------ helpers
Range(s) == {s[i] : i \in 1..Len(s)}

NoFile == [written |-> FALSE]

NoProgress == [written |-> FALSE, added_members |-> <<>>, daily_stats |-> <<>>]

\* the snapshot taken with the counters as they were before the addition
save_progress_StaleStats(added, stats) ==
    [written |-> TRUE, added_members |-> added, daily_stats |-> daily_stats]

\* MemberAdder.save_progress: the file is overwritten with the snapshot.
save_progress(added, stats) ==
    [written |-> TRUE, added_members |-> added, daily_stats |-> stats]

\* switch_account without the wrap: the index sticks at the last account
switch_account_NoWrap(i) == IF i + 1 < Len(accounts) THEN i + 1 ELSE i

\* MemberAdder.switch_account: the next index of the rotation.
switch_account(i) == (i + 1) % Len(accounts)

\* the phone at a (0-based) index of config['accounts']
AccountAt(i) == accounts[i + 1]

\* the daily-limit test with > for >=
QuotaReached_OffByOne(stats, phone) == stats[phone] > max_adds

\* the daily-limit test of lines 153 and 170
QuotaReached(stats, phone) == stats[phone] >= max_adds

\* the test of the outer while (line 134)
OuterLoopTest(added, mems) == Len(added) < members_to_add /\ mems # <<>>

\* the inner while without the target test
InnerLoopTest_NoTarget(added, mems) == mems # <<>>

\* the test of the inner while (line 161)
InnerLoopTest(added, mems) == mems # <<>> /\ Len(added) < members_to_add

\* add_member falling through to a True result after an except clause
add_member_returns_True(kind) == TRUE

\* what add_member returns for an answer of the service: True after the
\* invite went through (line 94), False after every except clause (line 114)
add_member_returns(kind) == kind = "ok"

\* the delay drawn from 0 instead of min_delay
Delays_FromZero(lo, hi) == 0..hi

\* line 90: random.randint(min_delay, max_delay), both bounds included
Delays(lo, hi) == lo..hi

\* the flood wait skipped
FloodWaitSleep_None(seconds) == 0

\* line 98: asyncio.sleep(e.seconds)
FloodWaitSleep(seconds) == seconds

\* --------------------------------------------------------------------- Init
\* The Collector before it is run.
CollectorIdle ==
    /\ cpc = "idle"
    /\ session_ok = TRUE
    /\ all_members = <<>>
    /\ msg_left = 0
    /\ pattern = 1
    /\ members_file = NoFile
    /\ stats_file = NoFile
    /\ last_strategy = "none"
    /\ last_users = <<>>
    /\ csleeping = 0
    /\ queries = <<>>
    /\ cslept = 0
    /\ save_reached = FALSE

\* After MemberAdder.__init__: index 0, every counter 0, nothing loaded.
DispatcherInit ==
    /\ \E r \in 1..MaxAccounts : accounts = SubSeq(AllPhones, 1, r)
    /\ authorized \in SUBSET Range(accounts)
    /\ max_adds \in 0..MaxCap
    /\ members_to_add \in 0..MaxTarget
    /\ \E d \in DelayConfigs : min_delay = d[1] /\ max_delay = d[2]
    /\ \E n \in 0..MaxMembers : file = [i \in 1..n |-> i]
    /\ pc = "start"
    /\ members = <<>>
    /\ added_members = <<>>
    /\ current_account_index = 0
    /\ current_phone = ""
    /\ client = ""
    /\ daily_stats = [p \in Range(accounts) |-> 0]
    /\ user_data = 0
    /\ sleeping = 0
    /\ progress = NoProgress
    /\ writes = 0
    /\ outcomes = <<>>
    /\ flood_seconds = 0
    /\ slept = 0
    /\ errors = 0

Init == DispatcherInit /\ CollectorIdle

\* ------------------------------------------------------- Dispatcher actions
\* run(), lines 116-134: load the file; return when it is empty; otherwise
\* take the current account and evaluate the outer loop for the first time.
Run ==
    /\ pc = "start"
    /\ members' = file
    /\ IF file = <<>>
       THEN /\ pc' = "abort"
            /\ UNCHANGED <<current_phone, client, progress, writes>>
       ELSE /\ current_phone' = AccountAt(current_account_index)
            /\ IF OuterLoopTest(added_members, file)
               THEN /\ pc' = "connect"
                    /\ client' = current_phone'
                    /\ UNCHANGED <<progress, writes>>
               ELSE /\ pc' = "done"
                    /\ progress' = save_progress(added_members, daily_stats)
                    /\ writes' = writes + 1
                    /\ UNCHANGED client
    /\ UNCHANGED <<cvars, config, added_members, current_account_index, daily_stats,
                   user_data, sleeping, outcomes, flood_seconds, slept, errors>>

\* line 140: client.connect() returned.
ConnectOk ==
    /\ pc = "connect"
    /\ pc' = "auth"
    /\ UNCHANGED <<cvars, config, members, added_members, current_account_index,
                   current_phone, client, daily_stats, user_data, sleeping,
                   progress, writes, outcomes, flood_seconds, slept, errors>>

\* lines 173-175: connect, is_user_authorized or get_entity raised; the
\* main loop's except logs and sleeps.
InfraError ==
    /\ pc \in {"connect", "auth", "entity"}
    /\ errors < MaxErrors
    /\ errors' = errors + 1
    /\ sleeping' = MainLoopErrorSleep
    /\ pc' = "errsleep"
    /\ UNCHANGED <<cvars, config, members, added_members, current_account_index,
                   current_phone, client, daily_stats, user_data, progress, writes,
                   outcomes, flood_seconds, slept>>

\* line 175 done; finally (line 178) disconnects.
ErrSleepDone ==
    /\ pc = "errsleep"
    /\ slept' = slept + sleeping
    /\ sleeping' = 0
    /\ pc' = "disconnect"
    /\ UNCHANGED <<cvars, config, members, added_members, current_account_index,
                   current_phone, client, daily_stats, user_data, progress, writes,
                   outcomes, flood_seconds, errors>>

\* line 142, authorized: go on to get_entity (line 150).
AuthOk ==
    /\ pc = "auth"
    /\ client \in authorized
    /\ pc' = "entity"
    /\ UNCHANGED <<cvars, config, members, added_members, current_account_index,
                   current_phone, client, daily_stats, user_data, sleeping,
                   progress, writes, outcomes, flood_seconds, slept, errors>>

\* lines 142-147, not authorized: rotate, continue (through finally).
AuthFail ==
    /\ pc = "auth"
    /\ client \notin authorized
    /\ current_account_index' = switch_account(current_account_index)
    /\ current_phone' = AccountAt(current_account_index')
    /\ pc' = "disconnect"
    /\ UNCHANGED <<cvars, config, members, added_members, client, daily_stats,
                   user_data, sleeping, progress, writes, outcomes, flood_seconds,
                   slept, errors>>

\* lines 153-158, get_entity returned and the account is at its daily limit:
\* rotate, continue (through finally).
QuotaRotate ==
    /\ pc = "entity"
    /\ QuotaReached(daily_stats, current_phone)
    /\ current_account_index' = switch_account(current_account_index)
    /\ current_phone' = AccountAt(current_account_index')
    /\ pc' = "disconnect"
    /\ UNCHANGED <<cvars, config, members, added_members, client, daily_stats,
                   user_data, sleeping, progress, writes, outcomes, flood_seconds,
                   slept, errors>>

\* lines 161-162 and 85: the inner loop pops the front candidate and sends
\* the invite, or is over and finally disconnects.
NextCandidate(added, mems) ==
    IF InnerLoopTest(added, mems)
    THEN /\ user_data' = Head(mems)
         /\ members' = Tail(mems)
         /\ pc' = "invite"
    ELSE /\ pc' = "disconnect"
         /\ UNCHANGED <<user_data, members>>

\* lines 153, 161: get_entity returned, the account is under its limit.
EnterDispatch ==
    /\ pc = "entity"
    /\ ~QuotaReached(daily_stats, current_phone)
    /\ NextCandidate(added_members, members)
    /\ UNCHANGED <<cvars, config, added_members, current_account_index,
                   current_phone, client, daily_stats, sleeping, progress, writes,
                   outcomes, flood_seconds, slept, errors>>

\* a failed candidate put back at the end of the queue
AfterAddMember_Requeue(kind) ==
    LET result == add_member_returns(kind)
        added  == IF result THEN Append(added_members, user_data)
                            ELSE added_members
        stats  == IF result
                  THEN [daily_stats EXCEPT ![current_phone] = @ + 1]
                  ELSE daily_stats
        mems   == IF result THEN members ELSE Append(members, user_data)
    IN  /\ added_members' = added
        /\ daily_stats' = stats
        /\ progress' = IF result THEN save_progress(added, stats) ELSE progress
        /\ writes' = IF result THEN writes + 1 ELSE writes
        /\ IF QuotaReached(stats, current_phone)
           THEN /\ pc' = "disconnect"
                /\ members' = mems
                /\ UNCHANGED user_data
           ELSE NextCandidate(added, mems)

\* the addition appended without counting it for the account
AfterAddMember_NoCount(kind) ==
    LET result == add_member_returns(kind)
        added  == IF result THEN Append(added_members, user_data)
                            ELSE added_members
    IN  /\ added_members' = added
        /\ daily_stats' = daily_stats
        /\ progress' = IF result THEN save_progress(added, daily_stats)
                                 ELSE progress
        /\ writes' = IF result THEN writes + 1 ELSE writes
        /\ NextCandidate(added, members)

\* lines 164-171: add_member returned for an answer of the given kind.
AfterAddMember(kind) ==
    LET result == add_member_returns(kind)
        added  == IF result THEN Append(added_members, user_data)
                            ELSE added_members
        stats  == IF result
                  THEN [daily_stats EXCEPT ![current_phone] = @ + 1]
                  ELSE daily_stats
    IN  /\ added_members' = added
        /\ daily_stats' = stats
        /\ progress' = IF result THEN save_progress(added, stats) ELSE progress
        /\ writes' = IF result THEN writes + 1 ELSE writes
        /\ IF QuotaReached(stats, current_phone)
           THEN /\ pc' = "disconnect"
                /\ UNCHANGED <<user_data, members>>
           ELSE NextCandidate(added, members)

\* lines 85-93: the invite went through; a delay is drawn and slept.
InviteOk ==
    /\ pc = "invite"
    /\ outcomes' = Append(outcomes, "ok")
    /\ \E d \in Delays(min_delay, max_delay) : sleeping' = d
    /\ slept' = 0
    /\ pc' = "delay"
    /\ UNCHANGED <<cvars, config, members, added_members, current_account_index,
                   current_phone, client, daily_stats, user_data, progress, writes,
                   flood_seconds, errors>>

\* line 94 and lines 164-171: the delay is over, add_member returns True.
DelayDone ==
    /\ pc = "delay"
    /\ slept' = slept + sleeping
    /\ sleeping' = 0
    /\ AfterAddMember("ok")
    /\ UNCHANGED <<cvars, config, current_account_index, current_phone, client,
                   outcomes, flood_seconds, errors>>

\* lines 96-98: FloodWaitError; sleep e.seconds.
InviteFloodWait ==
    /\ pc = "invite"
    /\ outcomes' = Append(outcomes, "floodwait")
    /\ \E w \in FloodWaitSeconds :
          /\ flood_seconds' = w
          /\ sleeping' = FloodWaitSleep(w)
    /\ slept' = 0
    /\ pc' = "floodwait"
    /\ UNCHANGED <<cvars, config, members, added_members, current_account_index,
                   current_phone, client, daily_stats, user_data, progress, writes,
                   errors>>

\* line 114 and lines 164-171: the flood wait is over, add_member returns.
FloodWaitDone ==
    /\ pc = "floodwait"
    /\ slept' = slept + sleeping
    /\ sleeping' = 0
    /\ AfterAddMember("floodwait")
    /\ UNCHANGED <<cvars, config, current_account_index, current_phone, client,
                   outcomes, flood_seconds, errors>>

\* lines 99-106, 114: privacy restricted, not a mutual contact, banned in
\* the channel or blocked; add_member logs and returns without a wait.
InviteRestricted ==
    /\ pc = "invite"
    /\ outcomes' = Append(outcomes, "restricted")
    /\ slept' = 0
    /\ AfterAddMember("restricted")
    /\ UNCHANGED <<cvars, config, current_account_index, current_phone, client,
                   sleeping, flood_seconds, errors>>

\* lines 111-114: any other exception; add_member logs and returns.
InviteOther ==
    /\ pc = "invite"
    /\ outcomes' = Append(outcomes, "other")
    /\ slept' = 0
    /\ AfterAddMember("other")
    /\ UNCHANGED <<cvars, config, current_account_index, current_phone, client,
                   sleeping, flood_seconds, errors>>

\* lines 107-110: PeerFloodError; switch_account advances the index (run()'s
\* current_phone and client are locals of run and stay), then the cooldown.
InvitePeerFlood ==
    /\ pc = "invite"
    /\ outcomes' = Append(outcomes, "peerflood")
    /\ current_account_index' = switch_account(current_account_index)
    /\ sleeping' = PeerFloodCooldown
    /\ slept' = 0
    /\ pc' = "cooldown"
    /\ UNCHANGED <<cvars, config, members, added_members, current_phone, client,
                   daily_stats, user_data, progress, writes, flood_seconds, errors>>

\* line 114 and lines 164-171: the cooldown is over, add_member returns.
CooldownDone ==
    /\ pc = "cooldown"
    /\ slept' = slept + sleeping
    /\ sleeping' = 0
    /\ AfterAddMember("peerflood")
    /\ UNCHANGED <<cvars, config, current_account_index, current_phone, client,
                   outcomes, flood_seconds, errors>>

\* line 178 done, then line 134: another round with a client for the
\* current session file, or the final save (lines 180-182).
DisconnectDone ==
    /\ pc = "disconnect"
    /\ IF OuterLoopTest(added_members, members)
       THEN /\ pc' = "connect"
            /\ client' = current_phone
            /\ UNCHANGED <<progress, writes>>
       ELSE /\ pc' = "done"
            /\ progress' = save_progress(added_members, daily_stats)
            /\ writes' = writes + 1
            /\ UNCHANGED client
    /\ UNCHANGED <<cvars, config, members, added_members, current_account_index,
                   current_phone, daily_stats, user_data, sleeping, outcomes,
                   flood_seconds, slept, errors>>

Next ==
    \/ Run
    \/ ConnectOk
    \/ InfraError
    \/ ErrSleepDone
    \/ AuthOk
    \/ AuthFail
    \/ QuotaRotate
    \/ EnterDispatch
    \/ InviteOk
    \/ DelayDone
    \/ InviteFloodWait
    \/ FloodWaitDone
    \/ InviteRestricted
    \/ InviteOther
    \/ InvitePeerFlood
    \/ CooldownDone
    \/ DisconnectDone

Spec == Init /\ [][Next]_vars

\* The event loop resumes the coroutine whenever its await completes.
FairSpec == Spec /\ WF_vars(Next)

\* ---------------------------------------------------- Dispatcher properties
\* outcomes[i] is the answer of the service for the i-th popped candidate,
\* which is file[i]; the candidate ids of the file are their positions.
AllSucceeded == \A i \in 1..Len(outcomes) : outcomes[i] = "ok"

SucceededCandidate(c) == c <= Len(outcomes) /\ outcomes[c] = "ok"

FloodWaited == {file[i] : i \in {j \in 1..Len(outcomes) : outcomes[j] = "floodwait"}}

Completed == pc = "done"

C2_DailyCap ==
    /\ \A a \in DOMAIN daily_stats : daily_stats[a] <= max_adds
    /\ pc = "invite" => /\ daily_stats[client] < max_adds
                        /\ daily_stats[current_phone] < max_adds

\* C2 witness: an invite in flight while another account sits at its cap.
C2_Witness ==
    /\ pc = "invite"
    /\ max_adds >= 1
    /\ \E a \in DOMAIN daily_stats : daily_stats[a] = max_adds

RotationStep == AuthFail \/ QuotaRotate \/ InvitePeerFlood

\* C3: every rotation step (unauthorized session, quota reached, flood of
\* requests) moves the index from i to (i + 1) mod R, and no other step
\* changes it.
C3_RoundRobin ==
    [][/\ RotationStep =>
            current_account_index' =
                (current_account_index + 1) % Len(accounts)
       /\ ~RotationStep => current_account_index' = current_account_index]_vars

\* C3 witness: the flood-of-requests rotation has wrapped the index from the
\* last account (still run()'s current_phone) to 0.
C3_Witness ==
    /\ pc = "cooldown"
    /\ Len(accounts) >= 2
    /\ current_phone = accounts[Len(accounts)]
    /\ current_account_index = 0

\* C7: a candidate answered with a rate-limit signal is never added, never
\* back in the queue and never sent again, and the next invite is not sent
\* before the server-specified wait has been slept.
C7_FloodWaitSleepsAndDrops ==
    /\ \A c \in FloodWaited :
          /\ c \notin Range(added_members)
          /\ c \notin Range(progress.added_members)
          /\ c \notin Range(members)
          /\ pc = "invite" => user_data # c
    /\ (pc = "invite" /\ outcomes # <<>>
            /\ outcomes[Len(outcomes)] = "floodwait")
        => slept >= flood_seconds

\* C7 witness: the invite after a 30-unit rate-limit signal is in flight.
C7_Witness ==
    /\ pc = "invite"
    /\ outcomes # <<>>
    /\ outcomes[Len(outcomes)] = "floodwait"
    /\ flood_seconds = 30
    /\ slept = 30

\* C8: at Completion added_members is the subsequence of the loaded file of
\* the candidates whose attempt succeeded; once the queue is empty the run
\* completes, target reached or not; with target 2 and two candidates, the
\* first permanently restricted and the second added, the final Progress
\* Record has one added member and counter 1 for the active account.
C8_AddedIsSucceededSubsequence ==
    /\ [](Completed =>
            /\ added_members = SelectSeq(file, SucceededCandidate)
            /\ progress.added_members = added_members
            /\ (members_to_add = 2 /\ Len(file) = 2
                    /\ outcomes = <<"restricted", "ok">>)
                => /\ Len(progress.added_members) = 1
                   /\ progress.daily_stats[current_phone] = 1)
    /\ (pc \notin {"start", "abort"} /\ members = <<>>) ~> Completed

\* C8 witness: the scenario's run has completed with the target not reached.
C8_Witness ==
    /\ Completed
    /\ members_to_add = 2
    /\ outcomes = <<"restricted", "ok">>
    /\ added_members = <<2>>
    /\ members = <<>>

\* C9 as stated: with no authorized account and a non-empty candidate file
\* the run eventually stops.
C9_StopsWithoutAuthorizedAccount ==
    (authorized = {} /\ file # <<>>) => <>(pc \in {"done", "abort"})

\* C10 as stated: at every wait point the Progress Record on disk holds every
\* candidate whose invite has gone through at the service in this run.
C10_CompletedAddsArePersisted ==
    pc # "start" =>
        \A c \in Range(file) :
            SucceededCandidate(c) => c \in Range(progress.added_members)

\* a step of an add attempt that failed
FailedStep ==
    \/ InviteFloodWait \/ FloodWaitDone
    \/ InviteRestricted \/ InviteOther
    \/ InvitePeerFlood \/ CooldownDone

LastOutcome == IF outcomes = <<>> THEN "none" ELSE outcomes[Len(outcomes)]

\* C11: once a member has been added, the Progress Record on disk equals
\* the in-memory added_members and daily_stats whenever an invite is sent,
\* and it does at Completion; the file has been written once per addition
\* and once more at Completion; a failed attempt does not write it.
C11_ProgressIsCheckpoint ==
    /\ []((((pc = "invite" /\ added_members # <<>>) \/ Completed)
             => progress = save_progress(added_members, daily_stats))
          /\ writes = Len(added_members) + (IF Completed THEN 1 ELSE 0))
    /\ [][DelayDone =>
            /\ added_members' = Append(added_members, user_data)
            /\ progress' = save_progress(added_members', daily_stats')
            /\ writes' = writes + 1]_vars
    /\ [][FailedStep => progress' = progress /\ writes' = writes]_vars

\* C11 witness: the invite after the first addition is in flight and the
\* file, written once, shows the addition and the account's counter.
C11_Witness ==
    /\ pc = "invite"
    /\ added_members = <<1>>
    /\ writes = 1
    /\ progress.added_members = <<1>>
    /\ progress.daily_stats[current_phone] = 1

\* C12: the sleep after a successful invite lasts between min_delay and
\* max_delay (exactly k when both are k) and is over before the next invite;
\* after a failed attempt only the sleep of its except clause (none, the
\* server's wait, the cooldown) has passed when the next invite is sent.
C12_DelayAfterSuccess ==
    /\ pc = "delay" =>
          /\ LastOutcome = "ok"
          /\ min_delay <= sleeping /\ sleeping <= max_delay
          /\ min_delay = max_delay => sleeping = min_delay
    /\ pc = "invite" =>
          /\ LastOutcome = "ok" => slept >= min_delay
          /\ LastOutcome \in {"restricted", "other"} => slept = 0
          /\ LastOutcome = "floodwait" => slept = flood_seconds
          /\ LastOutcome = "peerflood" => slept = PeerFloodCooldown

\* C12 witness: with delays 1..2 the invite after an addition is sent after
\* a delay of 2.
C12_Witness ==
    /\ pc = "invite"
    /\ LastOutcome = "ok"
    /\ min_delay = 1 /\ max_delay = 2
    /\ slept = 2

\* C14 as stated: after a flood-of-requests signal with two or more accounts
\* the next invite is sent with, and credited to, the account at the
\* advanced rotation index.
C14_NextInviteUsesRotatedAccount ==
    (pc = "invite" /\ LastOutcome = "peerflood" /\ Len(accounts) >= 2)
        => /\ client = AccountAt(current_account_index)
           /\ current_phone = AccountAt(current_account_index)

\* the candidates popped so far
Popped == Len(outcomes) + (IF pc = "invite" THEN 1 ELSE 0)

\* C15: the queue is always the loaded file without its first Popped
\* records, the candidate of the invite in flight is the next of the file,
\* and the queue only ever loses its front record.
C15_NeverRequeued ==
    /\ [](pc \notin {"start", "idle"} =>
            /\ Popped <= Len(file)
            /\ members = SubSeq(file, Popped + 1, Len(file))
            /\ pc = "invite" => user_data = file[Popped])
    /\ [][pc # "start" =>
            \/ members' = members
            \/ members # <<>> /\ members' = Tail(members)
                  /\ user_data' = Head(members)]_vars

\* C15 witness: candidate 1 failed on a rate limit and candidate 2, the
\* last of the file, is being invited.
C15_Witness ==
    /\ pc = "invite"
    /\ outcomes = <<"floodwait">>
    /\ user_data = 2
    /\ members = <<>>

\* C16 as stated: with a non-empty file and every account authorized every
\* run reaches Completion, whatever the target, the cap and the accounts
\* (narrowed here to a daily cap of at least 1).
C16_AlwaysCompletes ==
    (file # <<>> /\ authorized = Range(accounts) /\ max_adds >= 1)
        => <>Completed

RECURSIVE SumStats(_)
SumStats(phones) ==
    IF phones = {}
    THEN 0
    ELSE LET p == CHOOSE q \in phones : TRUE
         IN  daily_stats[p] + SumStats(phones \ {p})

\* C20: the counters of all accounts add up to the number of added
\* members, which never exceeds the target; a failed attempt changes
\* neither the list nor a counter.
C20_CountersMatchAdded ==
    /\ [](/\ SumStats(DOMAIN daily_stats) = Len(added_members)
          /\ Len(added_members) <= members_to_add)
    /\ [][FailedStep => UNCHANGED <<added_members, daily_stats>>]_vars

\* C20 witness: two accounts have added one member each.
C20_Witness ==
    /\ Len(accounts) = 2
    /\ daily_stats["p1"] = 1 /\ daily_stats["p2"] = 1
    /\ Len(added_members) = 2

\* ================================================================ Collector
\* The user objects the service may return.  is_user is isinstance(x, User)
\* (a message sender may be a channel or missing); only the fields the code
\* tests or that tell two snapshots of a user apart are kept.
UserObjects ==
    {[id |-> 1, access_hash |-> 1, bot |-> FALSE, deleted |-> FALSE, is_user |-> TRUE],
     [id |-> 1, access_hash |-> 2, bot |-> FALSE, deleted |-> FALSE, is_user |-> TRUE],
     [id |-> 2, access_hash |-> 1, bot |-> FALSE, deleted |-> FALSE, is_user |-> TRUE],
     [id |-> 2, access_hash |-> 2, bot |-> FALSE, deleted |-> TRUE, is_user |-> TRUE],
     [id |-> 3, access_hash |-> 1, bot |-> TRUE, deleted |-> FALSE, is_user |-> TRUE],
     [id |-> 4, access_hash |-> 1, bot |-> FALSE, deleted |-> FALSE, is_user |-> FALSE]}

\* the user lists of one response
Responses == UNION {[1..n -> UserObjects] : n \in 0..MaxPassLen}

\* MemberScraper.user_to_dict (the fields of the model's user objects)
user_to_dict(user) ==
    [id |-> user.id, access_hash |-> user.access_hash, bot |-> user.bot]

\* the assignment skipped for a known id (first write wins)
DictSet_FirstWins(d, rec) ==
    IF \E k \in 1..Len(d) : d[k].id = rec.id THEN d ELSE Append(d, rec)

\* the assignment kept as a list append: a second record for a known id
DictSet_Append(d, rec) == Append(d, rec)

\* self.all_members[rec.id] = rec: a known key keeps its place and takes the
\* new value, a new key goes to the end.
DictSet(d, rec) ==
    IF \E k \in 1..Len(d) : d[k].id = rec.id
    THEN [k \in 1..Len(d) |-> IF d[k].id = rec.id THEN rec ELSE d[k]]
    ELSE Append(d, rec)

\* line 136: the filter of the recent-participants pass
KeepRecent(user) == user.is_user /\ ~user.bot /\ ~user.deleted

\* lines 63-64: the filter of the message-history scan
KeepSender(user) == user.is_user /\ ~user.bot /\ ~user.deleted

\* the reaction filter without the bot test
KeepReactor_NoBotTest(user) == user.is_user

\* line 80: the filter of the reaction scan
KeepReactor(user) == user.is_user /\ ~user.bot

\* line 111: the filter of the search enumeration
KeepFound(user) == user.is_user /\ ~user.bot /\ ~user.deleted

Keep(strategy, user) ==
    CASE strategy = "recent" -> KeepRecent(user)
      [] strategy = "messages" -> KeepSender(user)
      [] strategy = "reactions" -> KeepReactor(user)
      [] strategy = "search" -> KeepFound(user)

\* the for loops of lines 62-65, 79-81, 110-112 and 135-137 over one response
RECURSIVE MergeUsers(_, _, _)
MergeUsers(d, users, strategy) ==
    IF users = <<>>
    THEN d
    ELSE MergeUsers(IF Keep(strategy, Head(users))
                    THEN DictSet(d, user_to_dict(Head(users)))
                    ELSE d,
                    Tail(users), strategy)

\* The Dispatcher before it is run.
DispatcherIdle ==
    /\ accounts = <<"p1">>
    /\ authorized = {}
    /\ max_adds = 0
    /\ members_to_add = 0
    /\ min_delay = 1
    /\ max_delay = 1
    /\ file = <<>>
    /\ pc = "idle"
    /\ members = <<>>
    /\ added_members = <<>>
    /\ current_account_index = 0
    /\ current_phone = ""
    /\ client = ""
    /\ daily_stats = [p \in {"p1"} |-> 0]
    /\ user_data = 0
    /\ sleeping = 0
    /\ progress = NoProgress
    /\ writes = 0
    /\ outcomes = <<>>
    /\ flood_seconds = 0
    /\ slept = 0
    /\ errors = 0

\* After MemberScraper.__init__: all_members is empty.
CollectorInit ==
    /\ cpc = "start"
    /\ session_ok \in BOOLEAN
    /\ all_members = <<>>
    /\ msg_left = 0
    /\ pattern = 1
    /\ members_file = NoFile
    /\ stats_file = NoFile
    /\ last_strategy = "none"
    /\ last_users = <<>>
    /\ csleeping = 0
    /\ queries = <<>>
    /\ cslept = 0
    /\ save_reached = FALSE

CInit == CollectorInit /\ DispatcherIdle

\* one response merged into all_members
Merge(strategy, users) ==
    /\ all_members' = MergeUsers(all_members, users, strategy)
    /\ last_strategy' = strategy
    /\ last_users' = users

\* lines 143-158: run() up to client.connect().
CRun ==
    /\ cpc = "start"
    /\ cpc' = "connect"
    /\ UNCHANGED <<dvars, csearch, save_reached, session_ok, all_members, msg_left, pattern,
                   members_file, stats_file, last_strategy, last_users>>

\* line 158 returned; line 160 asks is_user_authorized.
CConnectOk ==
    /\ cpc = "connect"
    /\ cpc' = "auth"
    /\ UNCHANGED <<dvars, csearch, save_reached, session_ok, all_members, msg_left, pattern,
                   members_file, stats_file, last_strategy, last_users>>

\* lines 160-162: not authorized; return through finally.
CUnauthorized ==
    /\ cpc = "auth"
    /\ ~session_ok
    /\ cpc' = "disconnect"
    /\ UNCHANGED <<dvars, csearch, save_reached, session_ok, all_members, msg_left, pattern,
                   members_file, stats_file, last_strategy, last_users>>

\* line 165: authorized; get_entity is awaited.
CAuthorized ==
    /\ cpc = "auth"
    /\ session_ok
    /\ cpc' = "entity"
    /\ UNCHANGED <<dvars, csearch, save_reached, session_ok, all_members, msg_left, pattern,
                   members_file, stats_file, last_strategy, last_users>>

\* lines 199-205: connect, is_user_authorized or get_entity raised; run()'s
\* except logs and finally disconnects.
CFatal ==
    /\ cpc \in {"connect", "auth", "entity"}
    /\ cpc' = "disconnect"
    /\ UNCHANGED <<dvars, csearch, save_reached, session_ok, all_members, msg_left, pattern,
                   members_file, stats_file, last_strategy, last_users>>

\* lines 169, 127: the group is resolved; the recent participants are asked.
CEntityOk ==
    /\ cpc = "entity"
    /\ cpc' = "recent"
    /\ UNCHANGED <<dvars, csearch, save_reached, session_ok, all_members, msg_left, pattern,
                   members_file, stats_file, last_strategy, last_users>>

\* lines 135-139, then line 62: the recent participants are merged and the
\* message scan starts.
RecentOk ==
    /\ cpc = "recent"
    /\ \E users \in Responses : Merge("recent", users)
    /\ cpc' = "messages"
    /\ UNCHANGED <<dvars, csearch, save_reached, session_ok, msg_left, pattern, members_file,
                   stats_file>>

\* lines 140-141: the request raised; the strategy is skipped.
RecentError ==
    /\ cpc = "recent"
    /\ cpc' = "messages"
    /\ UNCHANGED <<dvars, csearch, save_reached, session_ok, all_members, msg_left, pattern,
                   members_file, stats_file, last_strategy, last_users>>

\* lines 62-67, then line 75: the senders of the iterated messages are
\* merged and the reaction scan asks for its messages.
MessagesScan ==
    /\ cpc = "messages"
    /\ \E users \in Responses : Merge("messages", users)
    /\ cpc' = "reactions_list"
    /\ UNCHANGED <<dvars, csearch, save_reached, session_ok, msg_left, pattern, members_file,
                   stats_file>>

\* lines 68-69, then line 75: the iteration raised after the senders of the
\* messages it had delivered were merged; the exception is logged.
MessagesError ==
    /\ cpc = "messages"
    /\ \E users \in Responses : Merge("messages", users)
    /\ cpc' = "reactions_list"
    /\ UNCHANGED <<dvars, csearch, save_reached, session_ok, msg_left,
                   pattern, members_file, stats_file>>

\* the search query with the given pattern is sent (line 102)
StartSearch(p) ==
    /\ cpc' = "search"
    /\ queries' = Append(queries, p)

\* line 76: the next message's reactions are asked, or the loop is over and
\* the search enumeration starts with the first pattern.
NextMessage(left) ==
    IF left > 0
    THEN cpc' = "reaction" /\ UNCHANGED queries
    ELSE StartSearch(pattern)

\* lines 75-78: the messages of the reaction scan arrived.
ReactionsListOk ==
    /\ cpc = "reactions_list"
    /\ \E n \in 0..MaxReactionMsgs :
          /\ msg_left' = n
          /\ NextMessage(n)
    /\ UNCHANGED <<dvars, session_ok, all_members, pattern, members_file,
                   stats_file, csleeping, cslept, save_reached,
                   last_strategy, last_users>>

\* lines 84-85: get_messages raised; the strategy is skipped.
ReactionsListError ==
    /\ cpc = "reactions_list"
    /\ StartSearch(pattern)
    /\ UNCHANGED <<dvars, session_ok, all_members, msg_left, pattern,
                   members_file, stats_file, csleeping, cslept, save_reached,
                   last_strategy, last_users>>

\* lines 78-81: the reactions of one message are merged.
ReactionOk ==
    /\ cpc = "reaction"
    /\ \E users \in Responses : Merge("reactions", users)
    /\ msg_left' = msg_left - 1
    /\ NextMessage(msg_left')
    /\ UNCHANGED <<dvars, session_ok, pattern, members_file, stats_file,
                   csleeping, cslept, save_reached>>

\* the exception of one reaction fetch ending the run (run()'s except)
ReactionError_Aborts ==
    /\ cpc = "reaction"
    /\ cpc' = "disconnect"
    /\ UNCHANGED <<dvars, csearch, save_reached, session_ok, all_members,
                   msg_left, pattern, members_file, stats_file,
                   last_strategy, last_users>>

\* lines 82-83: the reaction fetch of one message raised; continue.
ReactionError ==
    /\ cpc = "reaction"
    /\ msg_left' = msg_left - 1
    /\ NextMessage(msg_left')
    /\ UNCHANGED <<dvars, session_ok, all_members, pattern, members_file,
                   stats_file, csleeping, cslept, save_reached,
                   last_strategy, last_users>>

\* the files written without the test for an empty list
Save_Always ==
    /\ save_reached' = TRUE
    /\ members_file' = [written |-> TRUE, members |-> all_members]
    /\ stats_file' = [written |-> TRUE, total_members |-> Len(all_members)]

\* lines 175-197: the files are written when there is a member to save.
Save ==
    /\ save_reached' = TRUE
    /\ IF all_members # <<>>
       THEN /\ members_file' = [written |-> TRUE, members |-> all_members]
            /\ stats_file' = [written |-> TRUE,
                              total_members |-> Len(all_members)]
       ELSE UNCHANGED <<members_file, stats_file>>

\* line 99: the for loop goes to the next pattern, or is over: run() saves
\* (lines 175-197) and finally disconnects (line 205).
AfterPattern ==
    IF pattern < MaxPatterns
    THEN /\ pattern' = pattern + 1
         /\ StartSearch(pattern')
         /\ UNCHANGED <<members_file, stats_file, save_reached>>
    ELSE /\ Save
         /\ cpc' = "disconnect"
         /\ UNCHANGED <<pattern, queries>>

\* the search's flood wait skipped
SearchFloodSleep_None(seconds) == 0

\* line 119: asyncio.sleep(e.seconds)
SearchFloodSleep(seconds) == seconds

\* lines 110-115: the users found are merged; sleep 2.
SearchOk ==
    /\ cpc = "search"
    /\ \E users \in Responses : Merge("search", users)
    /\ csleeping' = SearchSleep
    /\ cslept' = 0
    /\ cpc' = "search_sleep"
    /\ UNCHANGED <<dvars, session_ok, msg_left, pattern, members_file,
                   stats_file, queries, save_reached>>

\* line 115 done.
SearchSleepDone ==
    /\ cpc = "search_sleep"
    /\ cslept' = cslept + csleeping
    /\ csleeping' = 0
    /\ AfterPattern
    /\ UNCHANGED <<dvars, session_ok, all_members, msg_left, last_strategy,
                   last_users>>

\* lines 117-119: FloodWaitError; sleep e.seconds.
SearchFloodWait ==
    /\ cpc = "search"
    /\ \E w \in FloodWaitSeconds : csleeping' = SearchFloodSleep(w)
    /\ cslept' = 0
    /\ cpc' = "search_flood"
    /\ UNCHANGED <<dvars, session_ok, all_members, msg_left, pattern,
                   members_file, stats_file, queries, save_reached,
                   last_strategy, last_users>>

\* the pattern that met the flood wait queried again
SearchFloodDone_Retry ==
    /\ cpc = "search_flood"
    /\ cslept' = cslept + csleeping
    /\ csleeping' = 0
    /\ StartSearch(pattern)
    /\ UNCHANGED <<dvars, session_ok, all_members, msg_left, pattern,
                   members_file, stats_file, save_reached, last_strategy,
                   last_users>>

\* line 119 done.
SearchFloodDone ==
    /\ cpc = "search_flood"
    /\ cslept' = cslept + csleeping
    /\ csleeping' = 0
    /\ AfterPattern
    /\ UNCHANGED <<dvars, session_ok, all_members, msg_left, last_strategy,
                   last_users>>

\* lines 120-121: any other exception is logged.
SearchError ==
    /\ cpc = "search"
    /\ cslept' = 0
    /\ AfterPattern
    /\ UNCHANGED <<dvars, session_ok, all_members, msg_left, csleeping,
                   last_strategy, last_users>>

\* line 205 done; run() returns.
CDisconnectDone ==
    /\ cpc = "disconnect"
    /\ cpc' = "done"
    /\ UNCHANGED <<dvars, csearch, save_reached, session_ok, all_members,
                   msg_left, pattern, members_file, stats_file,
                   last_strategy, last_users>>

CNext ==
    \/ CRun
    \/ CConnectOk
    \/ CUnauthorized
    \/ CAuthorized
    \/ CFatal
    \/ CEntityOk
    \/ RecentOk
    \/ RecentError
    \/ MessagesScan
    \/ MessagesError
    \/ ReactionsListOk
    \/ ReactionsListError
    \/ ReactionOk
    \/ ReactionError
    \/ SearchOk
    \/ SearchSleepDone
    \/ SearchFloodWait
    \/ SearchFloodDone
    \/ SearchError
    \/ CDisconnectDone

CollectorSpec == CInit /\ [][CNext]_vars

\* ----------------------------------------------------- Collector properties
Kept(strategy, users) ==
    {i \in 1..Len(users) : Keep(strategy, users[i])}

UniqueIds(d) ==
    \A j, k \in 1..Len(d) : d[j].id = d[k].id => j = k

\* the last kept occurrence of its id in a response
LastKept(strategy, users, i) ==
    /\ i \in Kept(strategy, users)
    /\ \A j \in Kept(strategy, users) : j > i => users[j].id # users[i].id

\* C4 as stated: a record of the Candidate Set is never changed by a later
\* merge (first write wins).
C4_FirstWriteWins ==
    [][\A k \in 1..Len(all_members) :
          /\ k <= Len(all_members')
          /\ all_members'[k] = all_members[k]]_vars

\* C4 (as amended): the Candidate Set holds one record per id; a record keeps
\* its id and its place for good; its fields change only when a response
\* holds a kept item with its id, and after a merge every id of the response
\* holds the fields of its last kept occurrence (last write wins).
C4_LastWriteWins ==
    /\ [](/\ UniqueIds(all_members)
          /\ \A i \in 1..Len(last_users) :
                LastKept(last_strategy, last_users, i)
                    => \E k \in 1..Len(all_members) :
                          all_members[k] = user_to_dict(last_users[i]))
    /\ [][\A k \in 1..Len(all_members) :
            /\ k <= Len(all_members')
            /\ all_members'[k].id = all_members[k].id
            /\ all_members'[k] # all_members[k]
                 => \E i \in Kept(last_strategy', last_users') :
                       last_users'[i].id = all_members[k].id]_vars

\* C4 witness: ids 1 and 2 were in the Candidate Set when a response with
\* two snapshots of id 1 was merged: two records, id 1 first, holding the
\* fields of the last snapshot.
C4_Witness ==
    /\ Len(last_users) = 2
    /\ Kept(last_strategy, last_users) = {1, 2}
    /\ last_users[1].id = 1 /\ last_users[1].access_hash = 1
    /\ last_users[2].id = 1 /\ last_users[2].access_hash = 2
    /\ Len(all_members) = 2
    /\ all_members[1] = [id |-> 1, access_hash |-> 2, bot |-> FALSE]
    /\ all_members[2].id = 2

\* C5: merging the response that was just merged once more leaves the
\* Candidate Set as it is (same records, same order).
C5_MergeIdempotent ==
    last_strategy # "none"
        => MergeUsers(all_members, last_users, last_strategy) = all_members

\* C5 witness: a response with two different snapshots of one user, both
\* kept, has been merged into a Candidate Set that holds another user too.
C5_Witness ==
    /\ Len(last_users) = 2
    /\ Kept(last_strategy, last_users) = {1, 2}
    /\ last_users[1].id = last_users[2].id
    /\ last_users[1] # last_users[2]
    /\ Len(all_members) = 2

\* C6: no record of the Candidate Set, in memory or in the written file, is
\* a bot.
C6_NoBots ==
    /\ \A k \in 1..Len(all_members) : all_members[k].bot = FALSE
    /\ members_file.written =>
          \A k \in 1..Len(members_file.members) :
              members_file.members[k].bot = FALSE

\* C6 witness: a response of the reaction scan that held a bot next to a
\* user was merged, and the user is in the Candidate Set.
C6_Witness ==
    /\ last_strategy = "reactions"
    /\ \E i, j \in 1..Len(last_users) :
          /\ last_users[i].bot
          /\ Keep("reactions", last_users[j])
          /\ \E k \in 1..Len(all_members) :
                all_members[k].id = last_users[j].id

\* C13: the two files are written together, exactly when run() has got to
\* its save step with a member in the Candidate Set (never with an
\* unauthorized session); the file holds the Candidate Set and total_members
\* is the number of its records.
C13_FilesWrittenIffMembers ==
    /\ members_file.written = stats_file.written
    /\ members_file.written = (save_reached /\ all_members # <<>>)
    /\ ~session_ok => ~members_file.written /\ ~stats_file.written
    /\ members_file.written =>
          /\ members_file.members = all_members
          /\ stats_file.total_members = Len(members_file.members)

\* C13 witness: a run that saved a Candidate Set of two records.
C13_Witness ==
    /\ cpc = "done"
    /\ members_file.written
    /\ Len(members_file.members) = 2
    /\ stats_file.total_members = 2

\* C17 as stated: after the sleep for a rate-limit signal the same pattern
\* is queried again.
C17_RetriesSamePattern ==
    [][SearchFloodDone => queries' = Append(queries, pattern)]_vars

\* the step after a sleep: the following pattern is queried, or the save
\* step is taken after the last pattern
MovesOn ==
    /\ cslept' = csleeping
    /\ IF pattern < MaxPatterns
       THEN queries' = Append(queries, pattern + 1)
       ELSE queries' = queries /\ save_reached'

\* C17 (as amended): on a rate-limit signal the Collector sleeps the
\* server's wait and then goes on to the following pattern (to the save
\* step after the last one); every pattern is queried once, in list order.
C17_FloodWaitMovesOn ==
    /\ [](/\ cpc = "search_flood" => csleeping \in FloodWaitSeconds
          /\ queries = [i \in 1..Len(queries) |-> i])
    /\ [][SearchFloodDone => MovesOn]_vars

\* C17 witness: the second pattern is queried after a wait of 30 for the
\* first.
C17_Witness ==
    /\ cpc = "search"
    /\ queries = <<1, 2>>
    /\ cslept = 30

\* C18 as stated: when a search query other than the first is sent, at
\* least the fixed interval has been slept since the answer to the one
\* before.
C18_TwoUnitsBetweenQueries ==
    (cpc = "search" /\ Len(queries) >= 2) => cslept >= SearchSleep

StrategyStages ==
    {"recent", "messages", "reactions_list", "reaction", "search",
     "search_sleep", "search_flood"}

Rank(c) ==
    CASE c = "recent" -> 1
      [] c = "messages" -> 2
      [] c \in {"reactions_list", "reaction"} -> 3
      [] c \in {"search", "search_sleep", "search_flood"} -> 4
      [] c \in {"disconnect", "done"} -> 5
      [] OTHER -> 0

\* the run is in one of the strategies
InStrategy ==
    cpc \in StrategyStages

\* a step in which a strategy, a reaction fetch or a search query raised
StrategyError ==
    \/ RecentError \/ ReactionsListError \/ ReactionError
    \/ SearchFloodWait \/ SearchError

\* a step of a strategy stage that keeps the order of the stages
InOrder ==
    /\ Rank(cpc') \in {Rank(cpc), Rank(cpc) + 1}
    /\ (cpc = "reaction") => (msg_left' = msg_left - 1)
    /\ pattern' \in {pattern, pattern + 1}
    /\ (cpc' = "disconnect") =>
          (save_reached' /\ queries = [i \in 1..MaxPatterns |-> i])
    /\ \A k \in 1..Len(all_members) :
          /\ k <= Len(all_members')
          /\ all_members'[k].id = all_members[k].id

\* the number of requests and sleeps the strategies still have before them
Remaining ==
    CASE cpc = "recent" -> 2 * MaxPatterns + MaxReactionMsgs + 3
      [] cpc = "messages" -> 2 * MaxPatterns + MaxReactionMsgs + 2
      [] cpc = "reactions_list" -> 2 * MaxPatterns + MaxReactionMsgs + 1
      [] cpc = "reaction" -> 2 * MaxPatterns + msg_left
      [] cpc = "search" -> 2 * (MaxPatterns - pattern) + 2
      [] cpc \in {"search_sleep", "search_flood"} ->
            2 * (MaxPatterns - pattern) + 1
      [] OTHER -> 0

=============================================================================
